---- MODULE Spec2Model ----
(***************************************************************************)
(* Model of the parallel batch-reingest tool (src/bin/parallel-ingest.rs)  *)
(* and of the DatabaseConnection it uses (src/db.rs).                      *)
(*                                                                         *)
(* The main thread connects, discovers the record ids, disconnects, then   *)
(* drains the id vector into batches that it hands to a threadpool; every  *)
(* pool thread runs process_batch on the batches it receives.              *)
(***************************************************************************)
EXTENDS Integers, Sequences, FiniteSets, TLC

\* Bounds of the model.
MaxIds == 3
MaxBatch == 2
MaxThreads == 2
MaxRowId == 3
MaxCalls == 4

VARIABLES
    pc,            \* position of the main thread
    options,       \* IngestOptions, fixed by init()
    connection,    \* the bootstrap DatabaseConnection: its client (TRUE = Some)
    discovered,    \* what get_record_ids returned (history)
    ids,           \* the Vec<i64> that ingest_records drains
    submitted,     \* the batches handed to pool.execute, in submission order
    jobs,          \* the pool's job channel: indexes into submitted, FIFO
    threads,       \* the pool's threads
    jobst,         \* per submitted batch: how far process_batch got
    log,           \* per submitted batch: the reingest executions issued
    sqlpc,         \* discovery query: how far main got with it
    sql_options,   \* the IngestOptions fields create_sql reads
    table,         \* the rows of biblio.record_entry
    sql,           \* the text create_sql returned, as its formatted pieces
    rows,          \* the ids the store selected for sql
    hist,          \* the calls made on a DatabaseConnection, in order
    result,        \* what the last of these calls returned
    bpc,           \* DatabaseConnectionBuilder: building, built or panicked
    builder,       \* its Option fields host, port, user, database
    params,        \* the getopts matches: --db-host, --db-port, --db-user, --db-name
    env,           \* the environment: PGHOST, PGPORT, PGUSER, PGDATABASE
    explicit,      \* per field, the value a set_* call gave (history)
    opts_applied,  \* set_opts has been called (history)
    built          \* host, port, user, database of the DatabaseConnection built

sqlvars == <<sqlpc, sql_options, table, sql, rows>>
connvars == <<hist, result>>
buildervars == <<bpc, builder, params, env, explicit, opts_applied, built>>

\* The state of the components that are checked on their own.
aux == <<sqlvars, connvars, buildervars>>

vars == <<pc, options, connection, discovered, ids, submitted, jobs,
          threads, jobst, log, aux>>

-----------------------------------------------------------------------------
(* Pure helpers *)

Range(s) == {s[k] : k \in 1..Len(s)}

RECURSIVE Concat(_)
Concat(ss) == IF ss = <<>> THEN <<>> ELSE Head(ss) \o Concat(Tail(ss))

\* The rows the store answers the discovery query with: n ids in the order
\* asked for; ids are a primary key, so they are distinct.
QueryResult(n) == [k \in 1..n |-> k]

-----------------------------------------------------------------------------
(* DatabaseConnection (src/db.rs); a connection is modelled by its client. *)

\* Variant: a connect that drops the held client on Err.
connectDropsOnErr(client, ok) == ok
\* DatabaseConnection::connect: the client is replaced only on Ok.
connect(client, ok) == IF ok THEN TRUE ELSE client

\* Variant: a disconnect that leaves the client in place.
disconnectKeepsClient(client) == client
\* DatabaseConnection::disconnect
disconnect(client) == FALSE

\* Variant: a client() that never panics.
client_panicsNever(client) == FALSE
\* DatabaseConnection::client panics unless a client is held.
client_panics(client) == ~client

\* DatabaseConnection::partial_clone: same parameters, no client.
partial_clone(client) == FALSE

\* The state of the connection's call history while it is not recorded.
ConnIdle ==
    /\ hist = <<>>
    /\ result = "none"

-----------------------------------------------------------------------------
(* DatabaseConnectionBuilder (src/db.rs). An Option is <<>> (None) or <<v>>. *)

DEFAULT_DB_PORT == 5432
DEFAULT_DB_HOST == "localhost"
DEFAULT_DB_USER == "evergreen"
DEFAULT_DB_NAME == "evergreen"

\* v.parse::<u16>(): Ok(n) as <<n>>, Err as <<>>
parse_u16(v) ==
    CASE v = "6002" -> <<6002>>
      [] v = "6003" -> <<6003>>
      [] OTHER -> <<>>

\* Variant: a set_opts that overwrites what a set_* call stored.
set_opts_fieldOverwrites(cur, given) == IF given # <<>> THEN given ELSE cur
\* set_opts, one field: the option's value is stored only where the field
\* is None.
set_opts_field(cur, given) == IF cur = <<>> THEN given ELSE cur

\* build, one field: the stored value, else the environment's, else the
\* default.
build_field(cur, envv, default) ==
    IF cur # <<>> THEN cur[1]
    ELSE IF envv # <<>> THEN envv[1]
    ELSE default

NoFields == [host |-> <<>>, port |-> <<>>, user |-> <<>>, database |-> <<>>]

\* The state of the builder component while it is not exercised.
BuilderIdle ==
    /\ bpc = "building"
    /\ builder = NoFields
    /\ params = NoFields
    /\ env = NoFields
    /\ explicit = NoFields
    /\ opts_applied = FALSE
    /\ built = NoFields

-----------------------------------------------------------------------------
(* ingest_records: the batch partitioner *)

\* Variant: the whole Vec taken as one batch.
BatchEndWhole(n, batch_size) == n
\* The match of ingest_records on ids.len() (the 0 => break arm is LoopBreak).
BatchEnd(n, batch_size) == IF n >= batch_size THEN batch_size ELSE n

\* Variant: the batch taken from the back of the Vec.
drain_takenFromBack(v, end) == SubSeq(v, Len(v) - end + 1, Len(v))
\* ids.drain(0..end).collect(): the elements drained ...
drain_taken(v, end) == SubSeq(v, 1, end)

\* Variant: the last drained element is left in the Vec.
drain_restKeepsLast(v, end) == IF end = 0 THEN v ELSE SubSeq(v, end, Len(v))
\* ... and what drain leaves in the Vec.
drain_rest(v, end) == SubSeq(v, end + 1, Len(v))

-----------------------------------------------------------------------------
(* The threadpool (crate threadpool): a fixed number of threads that take   *)
(* jobs off one unbounded FIFO channel; a thread whose job panics is       *)
(* replaced; join waits until no job is queued or active.                  *)

IdleThread == [st |-> "idle", job |-> 0, i |-> 0, client |-> FALSE, stmt |-> 0]

\* Variant: a pool with one thread too many.
ThreadPoolNewExtra(n) == [t \in 1..(n + 1) |-> IdleThread]
\* ThreadPool::new(n) spawns n threads that wait on the job channel.
ThreadPoolNew(n) == [t \in 1..n |-> IdleThread]

\* Variant: a bounded channel, full at one waiting job per thread.
ExecuteReadyBounded == Len(jobs) < Len(threads)
\* pool.execute sends on an unbounded channel: it never waits.
ExecuteReady == TRUE

\* Variant: a pool that loses the thread of a panicking job.
RespawnNone == [IdleThread EXCEPT !.st = "dead"]
\* The pool's sentinel starts a fresh thread in place of one that panicked.
Respawn == IdleThread

\* The pool's counters: jobs sent and not yet received, jobs being run.
queued_count == Len(jobs)
active_count == Cardinality({t \in DOMAIN threads : threads[t].st \notin {"idle", "dead"}})

\* Variant: a join that looks at the queue alone.
has_workQueuedOnly == queued_count > 0
\* The test pool.join() waits on.
has_work == queued_count > 0 \/ active_count > 0


\* Variant: a loop that returns at the first Err.
AfterQueryStopOnError(ok, i, n) == IF ok /\ i < n THEN "query" ELSE "return"
\* The for loops of reingest_attributes: an Err is logged and the loop goes on.
AfterQuery(ok, i, n) == IF i < n THEN "query" ELSE "return"

\* Variant: the full (2-argument) statement whatever attrs holds.
StatementArgsFull(attrs) == 2
\* The statement reingest_attributes prepares: 3 arguments (id, id, attrs)
\* when attrs is not empty, else 2 (id, id).
StatementArgs(attrs) == IF Len(attrs) > 0 THEN 3 ELSE 2

\* Variant: the attribute phase run for the browse flag as well.
runs_reingest_attributesAnyPhase(o) == o.do_attrs \/ o.do_browse
\* process_batch: if options.do_attrs { reingest_attributes(..) }; no other
\* flag of the options is read.
runs_reingest_attributes(o) == o.do_attrs

\* Variant: a loop that walks the batch from its end.
for_itemReversed(batch, i) == batch[Len(batch) + 1 - i]
\* for id in ids: the i-th turn of the loop has the i-th id of the batch.
for_item(batch, i) == batch[i]

\* Variant: a join that re-raises the panic of a job.
join_returnsOrPanics == IF \E b \in 1..Len(jobst) : jobst[b] \in {"connfail", "prepfail"}
                        THEN "panicked" ELSE "done"
\* pool.join() returns (); a job's panic is not handed to the caller.
join_returns == "done"

\* Dispatch is capped where the code would loop without end (batch_size = 0).
MaxSubmit == MaxIds

-----------------------------------------------------------------------------
(* create_sql and the discovery query (src/bin/parallel-ingest.rs)          *)
(* The query text is the sequence of its formatted pieces: a format string  *)
(* and the integers put in its holes.                                       *)

Piece(text, args) == [text |-> text, args |-> args]

\* Variant: the upper-bound predicate appended whatever max_id is.
create_sqlUpperAlways(o) ==
    <<Piece("SELECT id FROM biblio.record_entry", <<>>),
      Piece("WHERE NOT deleted AND id > {}", <<o.min_id>>),
      Piece(" AND id < {}", <<o.max_id>>),
      IF o.newest_first
      THEN Piece("ORDER BY create_date DESC, id DESC", <<>>)
      ELSE Piece("ORDER BY id", <<>>)>>
\* create_sql: select, filter (the upper bound only when max_id > 0), order.
create_sql(o) ==
    LET select == <<Piece("SELECT id FROM biblio.record_entry", <<>>)>>
        filter == <<Piece("WHERE NOT deleted AND id > {}", <<o.min_id>>)>>
                  \o (IF o.max_id > 0
                      THEN <<Piece(" AND id < {}", <<o.max_id>>)>>
                      ELSE <<>>)
        order_by == IF o.newest_first
                    THEN <<Piece("ORDER BY create_date DESC, id DESC", <<>>)>>
                    ELSE <<Piece("ORDER BY id", <<>>)>>
    IN select \o filter \o order_by

\* What the store makes of one piece of the text for one row: SQL's > and <
\* are strict.
Matches(row, piece) ==
    IF piece.text = "WHERE NOT deleted AND id > {}"
    THEN ~row.deleted /\ row.id > piece.args[1]
    ELSE IF piece.text = " AND id < {}"
    THEN row.id < piece.args[1]
    ELSE TRUE

\* The ids of the rows the store selects for a query text.
Selected(text, tbl) ==
    {r.id : r \in {x \in tbl : \A k \in 1..Len(text) : Matches(x, text[k])}}

\* The tables the store can hold: ids are a primary key.
Tables ==
    {t \in SUBSET [id : 1..MaxRowId, deleted : BOOLEAN] :
        \A r1 \in t : \A r2 \in t : r1.id = r2.id => r1 = r2}

\* The state of the query component while it is not exercised.
SqlIdle ==
    /\ sqlpc = "init"
    /\ sql_options = [min_id |-> 0, max_id |-> 0, newest_first |-> FALSE]
    /\ table = {}
    /\ sql = <<>>
    /\ rows = {}

-----------------------------------------------------------------------------
(* init(): the options the command line can give *)

IngestOptions ==
    [max_threads : 0..MaxThreads,
     batch_size : 0..MaxBatch,
     do_attrs : BOOLEAN,
     attrs : {<<>>, <<"mattr">>}]

Init ==
    /\ pc = "connect"
    /\ options \in IngestOptions
    /\ connection = FALSE
    /\ discovered = <<>>
    /\ ids = <<>>
    /\ submitted = <<>>
    /\ jobs = <<>>
    /\ threads = <<>>
    /\ jobst = <<>>
    /\ log = <<>>
    /\ SqlIdle
    /\ ConnIdle
    /\ BuilderIdle

-----------------------------------------------------------------------------
(* main *)

\* main: connection.connect(); the Result is dropped.
BootConnect ==
    /\ pc = "connect"
    /\ \E ok \in BOOLEAN : connection' = connect(connection, ok)
    /\ pc' = "discover"
    /\ UNCHANGED <<aux, options, discovered, ids, submitted, jobs,
                   threads, jobst, log>>

\* get_record_ids: client() panics without a client, query(..).unwrap()
\* panics on an error, else the ids are collected in the store's order.
get_record_ids ==
    /\ pc = "discover"
    /\ IF client_panics(connection)
       THEN /\ pc' = "panicked"
            /\ UNCHANGED <<discovered, ids>>
       ELSE \E ok \in BOOLEAN :
              IF ok
              THEN \E n \in 0..MaxIds :
                     /\ discovered' = QueryResult(n)
                     /\ ids' = discovered'
                     /\ pc' = "disconnect"
              ELSE /\ pc' = "panicked"
                   /\ UNCHANGED <<discovered, ids>>
    /\ UNCHANGED <<aux, options, connection, submitted, jobs,
                   threads, jobst, log>>

\* main: connection.disconnect()
BootDisconnect ==
    /\ pc = "disconnect"
    /\ connection' = disconnect(connection)
    /\ pc' = "new_pool"
    /\ UNCHANGED <<aux, options, discovered, ids, submitted, jobs,
                   threads, jobst, log>>

-----------------------------------------------------------------------------
(* ingest_records *)

\* ThreadPool::new(max_threads) (it asserts max_threads >= 1)
NewPool ==
    /\ pc = "new_pool"
    /\ IF options.max_threads = 0
       THEN /\ pc' = "panicked"
            /\ UNCHANGED threads
       ELSE /\ threads' = ThreadPoolNew(options.max_threads)
            /\ pc' = "loop"
    /\ UNCHANGED <<aux, options, connection, discovered, ids, submitted, jobs,
                   jobst, log>>

\* One turn of the loop: end, drain, partial_clone, pool.execute.
Dispatch ==
    /\ pc = "loop"
    /\ ids # <<>>
    /\ ExecuteReady
    /\ Len(submitted) < MaxSubmit
    /\ LET end == BatchEnd(Len(ids), options.batch_size)
           batch == drain_taken(ids, end)
       IN /\ ids' = drain_rest(ids, end)
          /\ submitted' = Append(submitted, batch)
          /\ jobst' = Append(jobst, "queued")
          /\ log' = Append(log, <<>>)
          /\ jobs' = Append(jobs, Len(submitted) + 1)
    /\ UNCHANGED <<aux, pc, options, connection, discovered, threads>>

\* Variant: ingest_records returning without pool.join().
LoopBreakNoJoin ==
    /\ pc = "loop"
    /\ ids = <<>>
    /\ pc' = "done"
    /\ UNCHANGED <<aux, options, connection, discovered, ids, submitted, jobs,
                   threads, jobst, log>>
\* ids.len() is 0: break, on to pool.join()
LoopBreak ==
    /\ pc = "loop"
    /\ ids = <<>>
    /\ pc' = "join"
    /\ UNCHANGED <<aux, options, connection, discovered, ids, submitted, jobs,
                   threads, jobst, log>>

\* pool.join() returns once the pool has no work.
Join ==
    /\ pc = "join"
    /\ ~has_work
    /\ pc' = join_returns
    /\ UNCHANGED <<aux, options, connection, discovered, ids, submitted, jobs,
                   threads, jobst, log>>

-----------------------------------------------------------------------------
(* The pool's threads: receive a job and run process_batch on it *)

Set(t, rec) == [threads EXCEPT ![t] = rec]

\* A waiting thread takes the next job off the channel and calls it.
Recv(t) ==
    /\ threads[t].st = "idle"
    /\ jobs # <<>>
    /\ threads' = Set(t, [threads[t] EXCEPT !.st = "connect", !.job = Head(jobs)])
    /\ jobs' = Tail(jobs)
    /\ jobst' = [jobst EXCEPT ![Head(jobs)] = "running"]
    /\ UNCHANGED <<aux, pc, options, connection, discovered, ids, submitted, log>>

\* process_batch: connection.connect().unwrap() on the batch's partial
\* clone; an Err panics: the job is over and the pool replaces the thread.
ProcessBatchConnect(t) ==
    /\ threads[t].st = "connect"
    /\ \E ok \in BOOLEAN :
         IF ok
         THEN /\ threads' = Set(t, [threads[t] EXCEPT
                      !.client = connect(partial_clone(connection), ok),
                      !.st = IF runs_reingest_attributes(options)
                             THEN "prepare" ELSE "return"])
              /\ UNCHANGED jobst
         ELSE /\ threads' = Set(t, Respawn)
              /\ jobst' = [jobst EXCEPT ![threads[t].job] = "connfail"]
    /\ UNCHANGED <<aux, pc, options, connection, discovered, ids, submitted, jobs, log>>

\* reingest_attributes: connection.client().prepare(sql).unwrap(); an Err
\* panics: the connection is dropped as the thread unwinds.
Prepare(t) ==
    /\ threads[t].st = "prepare"
    /\ \E ok \in BOOLEAN :
         IF ok /\ ~client_panics(threads[t].client)
         THEN /\ threads' = Set(t, [threads[t] EXCEPT
                      !.stmt = StatementArgs(options.attrs),
                      !.i = 1,
                      !.st = IF Len(submitted[threads[t].job]) = 0
                             THEN "return" ELSE "query"])
              /\ UNCHANGED jobst
         ELSE /\ threads' = Set(t, Respawn)
              /\ jobst' = [jobst EXCEPT ![threads[t].job] = "prepfail"]
    /\ UNCHANGED <<aux, pc, options, connection, discovered, ids, submitted, jobs, log>>

\* reingest_attributes: one turn of the for loop: the statement is executed
\* for the next id; an Err is logged.
Query(t) ==
    /\ threads[t].st = "query"
    /\ \E ok \in BOOLEAN :
         LET b == threads[t].job
             i == threads[t].i
         IN /\ log' = [log EXCEPT ![b] = Append(@,
                          [id |-> for_item(submitted[b], i), args |-> threads[t].stmt,
                           ok |-> ok])]
            /\ threads' = Set(t, [threads[t] EXCEPT
                          !.i = i + 1,
                          !.st = AfterQuery(ok, i, Len(submitted[b]))])
    /\ UNCHANGED <<aux, pc, options, connection, discovered, ids, submitted, jobs, jobst>>

\* process_batch returns: its connection is dropped, the thread waits again.
ProcessBatchReturn(t) ==
    /\ threads[t].st = "return"
    /\ threads' = Set(t, IdleThread)
    /\ jobst' = [jobst EXCEPT ![threads[t].job] = "done"]
    /\ UNCHANGED <<aux, pc, options, connection, discovered, ids, submitted, jobs, log>>

Next ==
    \/ BootConnect
    \/ get_record_ids
    \/ BootDisconnect
    \/ NewPool
    \/ Dispatch
    \/ LoopBreak
    \/ Join
    \/ \E t \in DOMAIN threads : Recv(t)
    \/ \E t \in DOMAIN threads : ProcessBatchConnect(t)
    \/ \E t \in DOMAIN threads : Prepare(t)
    \/ \E t \in DOMAIN threads : Query(t)
    \/ \E t \in DOMAIN threads : ProcessBatchReturn(t)

Spec == Init /\ [][Next]_vars

\* The scheduler runs a thread that can take a step, and the store answers
\* every call: the run does not simply stop while a step is possible.
FairSpec == Spec /\ WF_vars(Next)

-----------------------------------------------------------------------------
(* The run with the phase flags of the options: one pool thread, every      *)
(* combination of --do-browse, --do-attrs, --do-search, --do-facets and     *)
(* --do-display                                                             *)

FlagOptions ==
    [max_threads : {1},
     batch_size : 1..MaxBatch,
     do_browse : BOOLEAN,
     do_attrs : BOOLEAN,
     do_search : BOOLEAN,
     do_facets : BOOLEAN,
     do_display : BOOLEAN,
     attrs : {<<>>}]

FlagInit ==
    /\ pc = "connect"
    /\ options \in FlagOptions
    /\ connection = FALSE
    /\ discovered = <<>>
    /\ ids = <<>>
    /\ submitted = <<>>
    /\ jobs = <<>>
    /\ threads = <<>>
    /\ jobst = <<>>
    /\ log = <<>>
    /\ SqlIdle
    /\ ConnIdle
    /\ BuilderIdle

FlagSpec == FlagInit /\ [][Next]_vars

-----------------------------------------------------------------------------
(* The components on their own: the run's variables stay as constructed *)

ingest == <<pc, options, connection, discovered, ids, submitted, jobs,
            threads, jobst, log>>

IngestIdle ==
    /\ pc = "connect"
    /\ options = [max_threads |-> 1, batch_size |-> 1, do_attrs |-> FALSE,
                  attrs |-> <<>>]
    /\ connection = FALSE
    /\ discovered = <<>>
    /\ ids = <<>>
    /\ submitted = <<>>
    /\ jobs = <<>>
    /\ threads = <<>>
    /\ jobst = <<>>
    /\ log = <<>>

-----------------------------------------------------------------------------
(* The discovery query: main builds the text, the store answers it *)

SqlInit ==
    /\ IngestIdle
    /\ ConnIdle
    /\ BuilderIdle
    /\ sqlpc = "init"
    /\ sql_options \in [min_id : 0..MaxRowId, max_id : 0..(MaxRowId + 1),
                        newest_first : BOOLEAN]
    /\ table \in Tables
    /\ sql = <<>>
    /\ rows = {}

\* main: let sql = create_sql(&options)
CreateSql ==
    /\ sqlpc = "init"
    /\ sql' = create_sql(sql_options)
    /\ sqlpc' = "built"
    /\ UNCHANGED <<ingest, connvars, buildervars, sql_options, table, rows>>

\* get_record_ids: the store evaluates the query and the ids are collected.
DiscoveryQuery ==
    /\ sqlpc = "built"
    /\ rows' = Selected(sql, table)
    /\ sqlpc' = "queried"
    /\ UNCHANGED <<ingest, connvars, buildervars, sql_options, table, sql>>

SqlNext ==
    \/ CreateSql
    \/ DiscoveryQuery

SqlSpec == SqlInit /\ [][SqlNext]_vars

-----------------------------------------------------------------------------
(* A DatabaseConnection on its own: any sequence of connect, disconnect and *)
(* client calls on a connection as build() returns it (client: None)        *)

run == <<pc, options, discovered, ids, submitted, jobs, threads, jobst, log>>

ConnInit ==
    /\ IngestIdle
    /\ SqlIdle
    /\ ConnIdle
    /\ BuilderIdle

\* A call can be made: no panic has unwound the caller.
CanCall == result # "panic" /\ Len(hist) < MaxCalls

\* connection.connect(): Ok(()) or Err(message)
ConnConnect ==
    /\ CanCall
    /\ \E ok \in BOOLEAN :
         /\ connection' = connect(connection, ok)
         /\ result' = IF ok THEN "Ok" ELSE "Err"
         /\ hist' = Append(hist, IF ok THEN "connect_ok" ELSE "connect_err")
    /\ UNCHANGED <<run, sqlvars, buildervars>>

\* connection.disconnect()
ConnDisconnect ==
    /\ CanCall
    /\ connection' = disconnect(connection)
    /\ result' = "unit"
    /\ hist' = Append(hist, "disconnect")
    /\ UNCHANGED <<run, sqlvars, buildervars>>

\* connection.client(): the client, or a panic
ConnClient ==
    /\ CanCall
    /\ result' = IF client_panics(connection) THEN "panic" ELSE "client"
    /\ hist' = Append(hist, "client")
    /\ UNCHANGED <<run, sqlvars, buildervars, connection>>

ConnNext ==
    \/ ConnConnect
    \/ ConnDisconnect
    \/ ConnClient

ConnSpec == ConnInit /\ [][ConnNext]_vars

-----------------------------------------------------------------------------
(* The builder on its own: set_* and set_opts in any order, then build *)

BuilderInit ==
    /\ IngestIdle
    /\ SqlIdle
    /\ ConnIdle
    /\ bpc = "building"
    /\ builder = NoFields
    /\ params \in [host : {<<>>, <<"cli-host">>},
                   port : {<<>>, <<"6002">>, <<"x">>},
                   user : {<<>>, <<"cli-user">>},
                   database : {<<>>, <<"cli-name">>}]
    /\ env \in [host : {<<>>, <<"env-host">>},
                port : {<<>>, <<"6003">>, <<"x">>},
                user : {<<>>, <<"env-user">>},
                database : {<<>>, <<"env-name">>}]
    /\ explicit = NoFields
    /\ opts_applied = FALSE
    /\ built = NoFields

\* A set_* call: the field is overwritten.
Setter(f, v) ==
    /\ bpc = "building"
    /\ builder' = [builder EXCEPT ![f] = <<v>>]
    /\ explicit' = [explicit EXCEPT ![f] = <<v>>]
    /\ UNCHANGED <<ingest, sqlvars, connvars, bpc, params, env, opts_applied, built>>

set_host == Setter("host", "set-host")
set_port == Setter("port", 6001)
set_user == Setter("user", "set-user")
set_database == Setter("database", "set-name")

\* set_opts: host, user, database, then port, whose value is parsed and
\* unwrapped where the field is None and the option was given.
set_opts ==
    /\ bpc = "building"
    /\ opts_applied' = TRUE
    /\ LET parses == builder.port = <<>> /\ params.port # <<>>
           fields == [builder EXCEPT
                        !.host = set_opts_field(builder.host, params.host),
                        !.user = set_opts_field(builder.user, params.user),
                        !.database = set_opts_field(builder.database,
                                                    params.database)]
       IN IF parses /\ parse_u16(params.port[1]) = <<>>
          THEN /\ bpc' = "panicked"
               /\ builder' = fields
          ELSE /\ bpc' = bpc
               /\ builder' = [fields EXCEPT !.port =
                      set_opts_field(builder.port,
                          IF params.port = <<>> THEN <<>>
                          ELSE parse_u16(params.port[1]))]
    /\ UNCHANGED <<ingest, sqlvars, connvars, params, env, explicit, built>>

\* build: every field resolved; PGPORT is parsed and unwrapped where the
\* port field is None.
build ==
    /\ bpc = "building"
    /\ IF builder.port = <<>> /\ env.port # <<>> /\ parse_u16(env.port[1]) = <<>>
       THEN /\ bpc' = "panicked"
            /\ UNCHANGED built
       ELSE /\ bpc' = "built"
            /\ built' =
                 [host |-> build_field(builder.host, env.host, DEFAULT_DB_HOST),
                  user |-> build_field(builder.user, env.user, DEFAULT_DB_USER),
                  database |-> build_field(builder.database, env.database,
                                           DEFAULT_DB_NAME),
                  port |-> build_field(builder.port,
                              IF env.port = <<>> THEN <<>>
                              ELSE parse_u16(env.port[1]),
                              DEFAULT_DB_PORT)]
    /\ UNCHANGED <<ingest, sqlvars, connvars, builder, params, env, explicit,
                   opts_applied>>

BuilderNext ==
    \/ set_host
    \/ set_port
    \/ set_user
    \/ set_database
    \/ set_opts
    \/ build

BuilderSpec == BuilderInit /\ [][BuilderNext]_vars

-----------------------------------------------------------------------------
(* Definitions the properties are stated with *)

Batches == 1..Len(submitted)

CeilDiv(n, b) == (n + b - 1) \div b

\* The reingest executions issued so far, as (batch, position in its log).
Executions == UNION {{<<b, k>> : k \in 1..Len(log[b])} : b \in 1..Len(log)}

\* How many reingest executions identifier id has received.
Calls(id) == Cardinality({e \in Executions : log[e[1]][e[2]].id = id})

LogIds(b) == [k \in 1..Len(log[b]) |-> log[b][k].id]

Finished(b) == jobst[b] \in {"done", "connfail", "prepfail"}

Running == {t \in DOMAIN threads : threads[t].st \notin {"idle", "dead"}}

OpenWorkerConnections == {t \in DOMAIN threads : threads[t].client}

-----------------------------------------------------------------------------
(* Properties *)

\* C1: the batches submitted so far, concatenated in submission order and
\* followed by what is left in ids, are the discovered sequence; the batches
\* are pairwise disjoint; and once the loop has ended every discovered
\* identifier is in exactly one batch and the concatenation is the sequence.
C1_Partition ==
    /\ Concat(submitted) \o ids = discovered
    /\ \A a \in Batches : \A b \in Batches :
         a # b => Range(submitted[a]) \cap Range(submitted[b]) = {}
    /\ pc \in {"join", "done"} =>
         /\ Concat(submitted) = discovered
         /\ \A id \in Range(discovered) :
              Cardinality({b \in Batches : id \in Range(submitted[b])}) = 1

\* C1 witness: the loop has ended with several batches, the last one short.
C1_Witness ==
    /\ pc = "join"
    /\ Len(submitted) >= 2
    /\ Len(submitted[Len(submitted)]) < options.batch_size
    /\ Len(discovered) >= 3

\* C2: with batch size B > 0 and N discovered identifiers no batch is empty
\* or longer than B, every batch but the last submitted has exactly B
\* identifiers, and once the loop has ended there are ceil(N/B) batches, the
\* last of N mod B identifiers (B when N mod B = 0), none when N = 0.
C2_BatchSizes ==
    LET B == options.batch_size
        N == Len(discovered)
        n == Len(submitted)
    IN B > 0 =>
         /\ \A b \in Batches : Len(submitted[b]) >= 1 /\ Len(submitted[b]) <= B
         /\ \A b \in Batches : b < n => Len(submitted[b]) = B
         /\ pc \in {"join", "done"} =>
              /\ n = CeilDiv(N, B)
              /\ N = 0 => n = 0
              /\ N > 0 => Len(submitted[n]) = (IF N % B = 0 THEN B ELSE N % B)

\* C2 witness: N = 3 and B = 2 gave two batches, of 2 and of 1.
C2_Witness ==
    /\ pc = "join"
    /\ options.batch_size = 2
    /\ Len(discovered) = 3
    /\ Len(submitted) = 2
    /\ Len(submitted[1]) = 2
    /\ Len(submitted[2]) = 1

\* C3: when pool.join() has returned, no batch is queued, no thread is
\* running one, and every submitted batch has finished process_batch (it
\* ran to the end, or was abandoned on a connect or prepare failure).
C3_JoinAfterAll ==
    pc = "done" =>
      /\ jobs = <<>>
      /\ Running = {}
      /\ \A b \in Batches : Finished(b)

\* C3 witness: join returned for three batches on a pool of two, one of them
\* abandoned and one run to the end.
C3_Witness ==
    /\ pc = "done"
    /\ options.max_threads = 2
    /\ Len(submitted) = 3
    /\ \E b \in Batches : jobst[b] = "done"
    /\ \E b \in Batches : jobst[b] = "connfail"

\* C4 as claimed: when join() has returned every discovered identifier has
\* received exactly one reingest call.
C4_ExactlyOnceAtJoin ==
    pc = "done" => \A id \in Range(discovered) : Calls(id) = 1

\* C4 as amended: when join() has returned every discovered identifier is in
\* a batch, and has received exactly one reingest call if do_attrs is set
\* and the worker of its batch connected and prepared its statement, and
\* none otherwise.
C4_OncePerProcessedBatch ==
    pc = "done" =>
      /\ \A id \in Range(discovered) : \E b \in Batches : id \in Range(submitted[b])
      /\ \A b \in Batches : \A k \in 1..Len(submitted[b]) :
           Calls(submitted[b][k]) =
             (IF options.do_attrs /\ jobst[b] = "done" THEN 1 ELSE 0)

\* C4 witness: join returned for three identifiers in batches of 2 and 1 on
\* a pool of two, do_attrs set, one batch abandoned and the other processed.
C4_Witness ==
    /\ pc = "done"
    /\ options.do_attrs
    /\ options.batch_size = 2
    /\ options.max_threads = 2
    /\ Len(discovered) = 3
    /\ jobst = <<"done", "connfail">>
    /\ Calls(1) = 1 /\ Calls(2) = 1 /\ Calls(3) = 0

\* C5: in every state no discovered identifier has received more than one
\* reingest execution, and nothing else has received any.
C5_AtMostOnce ==
    /\ \A id \in Range(discovered) : Calls(id) <= 1
    /\ \A e \in Executions : log[e[1]][e[2]].id \in Range(discovered)

\* C5 witness: two threads are at work on different batches, each with an
\* execution issued.
C5_Witness ==
    \E t \in DOMAIN threads : \E u \in DOMAIN threads :
      /\ t # u
      /\ threads[t].st \in {"query", "return"}
      /\ threads[u].st \in {"query", "return"}
      /\ Len(log[threads[t].job]) >= 1
      /\ Len(log[threads[u].job]) >= 1

\* C6 as claimed: no more batches wait in the pool than it has threads, and
\* while every thread runs a batch the loop cannot submit another.
C6_BoundedSubmission ==
    threads # <<>> =>
      /\ queued_count <= options.max_threads
      /\ active_count = options.max_threads => ~ENABLED Dispatch

\* C6 as amended: pool.execute never waits: while identifiers are left the
\* loop can always submit the next batch, whatever the threads are doing;
\* only the number of batches running is bounded by max_threads, and the
\* number waiting is bounded by the number of batches, ceil(N/B).
C6_UnboundedSubmission ==
    (threads # <<>> /\ options.batch_size > 0) =>
      /\ (pc = "loop" /\ ids # <<>>) => ENABLED Dispatch
      /\ active_count <= options.max_threads
      /\ queued_count <= CeilDiv(Len(discovered), options.batch_size)

\* C6 witness: every thread runs a batch and more batches than there are
\* threads wait in the channel.
C6_Witness ==
    /\ threads # <<>>
    /\ options.batch_size > 0
    /\ active_count = options.max_threads
    /\ queued_count > options.max_threads

\* C7: the bootstrap connection and a worker's connection are never open at
\* the same time: the pool exists only after main has disconnected.
C7_BootstrapClosedFirst ==
    /\ ~(connection /\ OpenWorkerConnections # {})
    /\ threads # <<>> => ~connection

\* C7 witness: a worker holds an open connection.
C7_Witness ==
    /\ OpenWorkerConnections # {}
    /\ discovered # <<>>

\* C8: with max_threads >= 1, at most max_threads batches run at once and
\* at most max_threads connections (the bootstrap one counted) are open at
\* once; an open worker connection belongs to a thread that runs a batch,
\* and no two threads run the same batch (so none uses another's
\* connection).
C8_BoundedConnections ==
    options.max_threads >= 1 =>
      /\ Cardinality(Running) <= options.max_threads
      /\ Cardinality(OpenWorkerConnections) + (IF connection THEN 1 ELSE 0)
           <= options.max_threads
      /\ OpenWorkerConnections \subseteq Running
      /\ \A t \in Running : \A u \in Running :
           t # u => threads[t].job # threads[u].job

\* C8 witness: a pool of two with both connections open.
C8_Witness ==
    /\ options.max_threads = 2
    /\ Cardinality(OpenWorkerConnections) = 2

\* C9: a failed execution does not end the for loop: a thread that is past
\* the loop has executed the statement once for every identifier of its
\* batch, in order, whichever executions failed, and so has every batch
\* that ran to the end with do_attrs set.
C9_NoEarlyTermination ==
    /\ \A t \in DOMAIN threads :
         (threads[t].st = "return" /\ options.do_attrs) =>
           LogIds(threads[t].job) = submitted[threads[t].job]
    /\ \A t \in DOMAIN threads :
         threads[t].st = "query" =>
           LogIds(threads[t].job) =
             SubSeq(submitted[threads[t].job], 1, threads[t].i - 1)
    /\ \A b \in Batches :
         (jobst[b] = "done" /\ options.do_attrs) => LogIds(b) = submitted[b]

\* C9 witness: a batch of two ran to the end although its first execution
\* failed (scoped variant): the second identifier was still executed.
C9_Witness ==
    \E b \in Batches :
      /\ jobst[b] = "done"
      /\ Len(submitted[b]) = 2
      /\ Len(log[b]) = 2
      /\ ~log[b][1].ok
      /\ log[b][1].args = 3
      /\ log[b][2].id = submitted[b][2]

ConnectFailed == \E b \in Batches : jobst[b] = "connfail"

\* C10: a worker's connect failure abandons only its batch: no thread of the
\* pool is lost, a step that fails a connect leaves its thread waiting for
\* the next job and changes no other batch, and (batch size > 0) after such
\* a failure join() still returns, with every batch finished.
C10_ConnectFailureIsolated ==
    /\ [](\A t \in DOMAIN threads : threads[t].st # "dead")
    /\ [][\A b \in Batches :
            (jobst[b] # "connfail" /\ jobst'[b] = "connfail") =>
              /\ \A c \in Batches \ {b} : jobst'[c] = jobst[c]
              /\ Cardinality({t \in DOMAIN threads : threads'[t].st = "idle"})
                   = Cardinality({t \in DOMAIN threads : threads[t].st = "idle"}) + 1
              /\ jobs' = jobs /\ log' = log]_vars
    /\ (ConnectFailed /\ options.batch_size > 0) ~>
         (pc = "done" /\ \A b \in Batches : Finished(b))

\* C10 witness: join returned although the first of three batches was
\* abandoned on a connect failure; the later ones ran to the end.
C10_Witness ==
    /\ pc = "done"
    /\ Len(submitted) = 3
    /\ jobst = <<"connfail", "done", "done">>

\* C11: within a batch the executions are issued in the batch's order: the
\* k-th execution logged for a batch is for the k-th identifier of the
\* batch, and a step adds at most one execution, at the end of one log.
\* (Batches finish in any order: see the witness.)
C11_BatchOrder ==
    /\ [](\A b \in Batches :
            LogIds(b) = SubSeq(submitted[b], 1, Len(log[b])))
    /\ [][\A b \in 1..Len(log) :
            \/ log'[b] = log[b]
            \/ /\ Len(log'[b]) = Len(log[b]) + 1
               /\ SubSeq(log'[b], 1, Len(log[b])) = log[b]
               /\ \A c \in 1..Len(log) : c # b => log'[c] = log[c]]_vars

\* C11 witness: the second batch has run to the end while the first, of two
\* identifiers, has only its first execution issued.
C11_Witness ==
    /\ Len(submitted) = 2
    /\ Len(submitted[1]) = 2
    /\ jobst = <<"running", "done">>
    /\ Len(log[1]) = 1
    /\ Len(log[2]) = 1

\* C12: no failure of a worker reaches the dispatching flow: once the pool
\* exists main never panics, whatever connects, prepares and executions
\* fail, and (batch size > 0) join() returns and the run ends normally.
C12_FailuresSwallowed ==
    /\ [][(pc = "loop" \/ pc = "join") => (pc' \in {"loop", "join", "done"})]_vars
    /\ [](pc = "join" /\ ~has_work => ENABLED Join)
    /\ (pc = "loop" /\ options.batch_size > 0) ~> (pc = "done")

\* C12 witness: the run ended normally although one batch failed to
\* connect, one failed to prepare and the third had its execution fail.
C12_Witness ==
    /\ pc = "done"
    /\ jobst = <<"connfail", "prepfail", "done">>
    /\ Len(log[3]) = 1
    /\ ~log[3][1].ok

\* C13: a discovery failure ends the run before dispatch: without a
\* bootstrap client get_record_ids panics, a run that has panicked takes no
\* further step, and in it no pool exists, no batch was submitted, no
\* worker connection is open and no reingest execution was issued.
C13_DiscoveryFailureFatal ==
    /\ [](pc = "panicked" =>
            /\ threads = <<>>
            /\ submitted = <<>>
            /\ jobs = <<>>
            /\ log = <<>>
            /\ ids = discovered)
    /\ [][pc = "discover" /\ ~connection => pc' = "panicked"]_vars
    /\ [][pc = "discover" /\ pc' # "panicked" => connection /\ pc' = "disconnect"]_vars
    /\ [][pc # "panicked"]_vars

\* C13 witness: the run stopped in discovery with the bootstrap connection
\* open (the query was rejected).
C13_Witness ==
    /\ pc = "panicked"
    /\ connection
    /\ discovered = <<>>

\* C14: every execution of a run has the arguments of the one statement
\* variant the attribute-kind list selects (3 when it is not empty, 2 when
\* it is), and so has the statement every working thread holds.
C14_OneVariant ==
    LET n == IF options.attrs # <<>> THEN 3 ELSE 2
    IN /\ \A e \in Executions : log[e[1]][e[2]].args = n
       /\ \A t \in DOMAIN threads :
            threads[t].st \in {"query"} => threads[t].stmt = n

\* C14 witness: a batch of two identifiers, both executed with the scoped
\* (3-argument) statement.
C14_Witness ==
    \E b \in Batches :
      /\ Len(log[b]) = 2
      /\ log[b][1].args = 3
      /\ log[b][2].args = 3
      /\ options.attrs # <<>>

\* C19 as claimed: every turn of the dispatch loop shortens the identifier
\* sequence, and once the loop is entered join() eventually returns.
C19_RunCompletes ==
    /\ [][submitted' # submitted => Len(ids') < Len(ids)]_vars
    /\ (pc = "loop") ~> (pc = "done")


\* What is read off the query text.
HasLowerBound(text) ==
    \E k \in 1..Len(text) : text[k].text = "WHERE NOT deleted AND id > {}"
HasUpperBound(text) ==
    \E k \in 1..Len(text) : text[k].text = " AND id < {}"
LowerBoundOf(text) ==
    {text[k].args[1] : k \in {j \in 1..Len(text) :
                                text[j].text = "WHERE NOT deleted AND id > {}"}}
UpperBoundOf(text) ==
    {text[k].args[1] : k \in {j \in 1..Len(text) : text[j].text = " AND id < {}"}}

\* C15 as stated: the text has a lower-bound predicate exactly when min_id is
\* set (not 0) and an upper-bound predicate exactly when max_id is set (not 0).
C15_PredicatesWhenSet ==
    sqlpc # "init" =>
        /\ HasLowerBound(sql) <=> sql_options.min_id > 0
        /\ HasUpperBound(sql) <=> sql_options.max_id > 0

\* C15, amended: the text always has the lower-bound predicate, carrying
\* min_id (0 when it is not set), and has the upper-bound predicate, carrying
\* max_id, exactly when max_id > 0.
C15_LowerAlwaysUpperWhenSet ==
    sqlpc # "init" =>
        /\ LowerBoundOf(sql) = {sql_options.min_id}
        /\ HasUpperBound(sql) <=> sql_options.max_id > 0
        /\ HasUpperBound(sql) => UpperBoundOf(sql) = {sql_options.max_id}

\* C15 witness: a text built with neither bound set: it has a lower-bound
\* predicate and no upper-bound predicate.
C15_Witness ==
    /\ sqlpc = "built"
    /\ sql_options.min_id = 0
    /\ sql_options.max_id = 0
    /\ HasLowerBound(sql)
    /\ ~HasUpperBound(sql)

\* C16 as stated: with lower bound L and upper bound U > 0 the query selects
\* exactly the non-deleted rows with L <= id < U.
C16_LowerInclusive ==
    sqlpc = "queried" /\ sql_options.max_id > 0 =>
        rows = {r.id : r \in {x \in table :
                    /\ ~x.deleted
                    /\ sql_options.min_id <= x.id
                    /\ x.id < sql_options.max_id}}

\* A successful connect() with no disconnect() after it.
Connected(h) ==
    \E i \in 1..Len(h) :
        /\ h[i] = "connect_ok"
        /\ \A j \in (i + 1)..Len(h) : h[j] # "disconnect"

\* C18: after any sequence of calls the connection holds a client exactly
\* when there was a successful connect() with no disconnect() after it;
\* client() returns the client then and panics otherwise; a failed connect()
\* returns Err and leaves the held client as it was.
C18_ClientIffConnected ==
    /\ [](connection <=> Connected(hist))
    /\ [](hist # <<>> /\ hist[Len(hist)] = "client" =>
            result = (IF Connected(hist) THEN "client" ELSE "panic"))
    /\ [][hist' # hist /\ hist'[Len(hist')] = "connect_err" =>
            connection' = connection /\ result' = "Err"]_vars

\* C18 witness: client() returned the client after a successful and then a
\* failed connect().
C18_Witness ==
    /\ hist = <<"connect_ok", "connect_err", "client">>
    /\ result = "client"
    /\ connection

\* The value of a field as a source gives it: the port is given as text.
ValueOf(f, v) == IF f = "port" THEN parse_u16(v)[1] ELSE v

Defaults ==
    [host |-> DEFAULT_DB_HOST, port |-> DEFAULT_DB_PORT,
     user |-> DEFAULT_DB_USER, database |-> DEFAULT_DB_NAME]

\* explicit set_* value > CLI flag > environment variable > default
Resolved(f) ==
    IF explicit[f] # <<>> THEN explicit[f][1]
    ELSE IF opts_applied /\ params[f] # <<>> THEN ValueOf(f, params[f][1])
    ELSE IF env[f] # <<>> THEN ValueOf(f, env[f][1])
    ELSE Defaults[f]

\* C17: each of host, port, user and database of a built connection is the
\* value of the first source present among the set_* call, the command line
\* (through set_opts), the environment and the default, whatever the order
\* of the set_* and set_opts calls was; building fails only on a port text
\* that is not a number.
C17_Precedence ==
    /\ bpc = "built" => \A f \in DOMAIN built : built[f] = Resolved(f)
    /\ bpc = "panicked" => params.port = <<"x">> \/ env.port = <<"x">>

\* C17 witness: a connection built with each field from another source: the
\* host set over both other sources, the port from the command line over
\* the environment, the user from the environment, the database by default.
C17_Witness ==
    /\ bpc = "built"
    /\ explicit.host # <<>> /\ params.host # <<>> /\ env.host # <<>>
    /\ built.host = "set-host"
    /\ explicit.port = <<>> /\ opts_applied /\ env.port = <<"6003">>
    /\ built.port = 6002
    /\ explicit.user = <<>> /\ params.user = <<>>
    /\ built.user = "env-user"
    /\ built.database = "evergreen"

====
